---------------------------- MODULE Spec2Model ----------------------------
(***************************************************************************)
(* Model of app.py, the "Inkoop vergelijkingstool": two uploaded tables    *)
(* (old, new) are canonicalised, keyed on `Item number`, deduplicated and  *)
(* compared; the rows that are new and have Delay (days) > 0 are shown and *)
(* exported to a workbook of three sheets.                                 *)
(*                                                                         *)
(* Representation.  A Python str is a sequence of one-character strings    *)
(* (the tokens "NBSP" and "TAB" stand for U+00A0 and U+0009).  A cell is a *)
(* record [t, n, s]: t = "none" | "nan" | "int" | "float" | "str"; n is    *)
(* the integer or the float in tenths (10010 is 1001.0, 25 is 2.5), s the  *)
(* characters of a str.  A DataFrame is [columns, rows], each row a        *)
(* sequence of cells aligned with columns; a DataFrame indexed by          *)
(* set_index is [index, columns, rows].                                    *)
(***************************************************************************)
EXTENDS Integers, Sequences, FiniteSets

VARIABLES
    df,              \* the table a helper is applied to (helper specifications)
    res,             \* the results of the helper's applications, in order
    file_old,        \* st.file_uploader "Oud bestand"
    file_new,        \* st.file_uploader "Nieuw bestand"
    pc,              \* position of the Vergelijk handler
    df_old_idx,      \* _prepare's first result
    df_new_idx,      \* _prepare's second result
    df_added_delay,  \* _new_rows_with_delay's result
    shown,           \* the streamlit elements emitted so far, in order
    excel_bytes,     \* to_excel_bytes' result
    exc              \* the exception in flight / caught

vars == <<df, res, file_old, file_new, pc, df_old_idx, df_new_idx,
          df_added_delay, shown, excel_bytes, exc>>

helperVars == <<df, res>>

handlerVars == <<file_old, file_new, pc, df_old_idx, df_new_idx,
                 df_added_delay, shown, excel_bytes, exc>>

\* ------------------------------------------------------------ bounds

\* Columns of a table given to the canonicalizer.
MaxCols == 2

\* Rows of a table given to the deduplication.
MaxDedupRows == 3

\* Headers of a sheet given to _excel_safe_headers.
MaxHeaders == 3

\* Rows of each raw table given to _prepare / _new_rows_with_delay.
MaxRows == 2

\* Rows of each uploaded table in a Vergelijk request.
MaxUploadRows == 1

\* ------------------------------------------------------------ values

None == [t |-> "none", n |-> 0, s |-> << >>]

NaN == [t |-> "nan", n |-> 0, s |-> << >>]

IntCell(n) == [t |-> "int", n |-> n, s |-> << >>]

FloatCell(tenths) == [t |-> "float", n |-> tenths, s |-> << >>]

StrCell(s) == [t |-> "str", n |-> 0, s |-> s]

\* ------------------------------------------------------------ str helpers

Digits == <<"0", "1", "2", "3", "4", "5", "6", "7", "8", "9">>

RECURSIVE IntToStr(_)
\* str(n) of a non-negative int.
IntToStr(n) ==
    IF n < 10 THEN <<Digits[n + 1]>>
    ELSE IntToStr(n \div 10) \o <<Digits[(n % 10) + 1]>>

\* str(v) of a non-negative float with one decimal: 2.5 -> "2.5", 1001.0 -> "1001.0".
FloatToStr(tenths) == IntToStr(tenths \div 10) \o <<".">> \o <<Digits[(tenths % 10) + 1]>>

\* The elements of s at the indices i with keep[i], in order (a boolean mask).
FilterBy(s, keep) ==
    LET F[i \in 0..Len(s)] ==
            IF i = 0 THEN << >>
            ELSE IF keep[i] THEN Append(F[i - 1], s[i]) ELSE F[i - 1]
    IN  F[Len(s)]

Range(s) == {s[i] : i \in 1..Len(s)}

Whitespace == {" ", "TAB", "NBSP"}

\* One character c of s.split(): p holds the words closed so far and the
\* word being read.
SplitStep(p, c) ==
    IF c \in Whitespace
    THEN IF p.cur = << >> THEN p
         ELSE [words |-> Append(p.words, p.cur), cur |-> << >>]
    ELSE [words |-> p.words, cur |-> Append(p.cur, c)]

\* The end of s.split(): the word being read is closed.
SplitEnd(p) == IF p.cur = << >> THEN p.words ELSE Append(p.words, p.cur)

\* s.split(): the maximal runs of non-whitespace characters.
Split(s) ==
    LET F[i \in 0..Len(s)] ==
            IF i = 0 THEN [words |-> << >>, cur |-> << >>]
            ELSE SplitStep(F[i - 1], s[i])
    IN  SplitEnd(F[Len(s)])

\* " ".join(words)
JoinSpace(words) ==
    LET F[i \in 0..Len(words)] ==
            IF i = 0 THEN << >>
            ELSE IF i = 1 THEN words[1]
            ELSE F[i - 1] \o <<" ">> \o words[i]
    IN  F[Len(words)]

Min(S) == CHOOSE i \in S : \A j \in S : i <= j

Max(S) == CHOOSE i \in S : \A j \in S : j <= i

\* s without what precedes and follows the positions nonws
Between(s, nonws) ==
    IF nonws = {} THEN << >> ELSE SubSeq(s, Min(nonws), Max(nonws))

\* s.strip()
Strip(s) == Between(s, {i \in 1..Len(s) : s[i] \notin Whitespace})

Upper == <<"A", "B", "C", "D", "E", "F", "G", "H", "I", "J", "K", "L", "M",
           "N", "O", "P", "Q", "R", "S", "T", "U", "V", "W", "X", "Y", "Z">>

Lower == <<"a", "b", "c", "d", "e", "f", "g", "h", "i", "j", "k", "l", "m",
           "n", "o", "p", "q", "r", "s", "t", "u", "v", "w", "x", "y", "z">>

\* c.lower() of each upper-case letter
LowerOf == [c \in {Upper[k] : k \in 1..26} |-> Lower[CHOOSE k \in 1..26 : Upper[k] = c]]

\* s.lower()
ToLower(s) ==
    [i \in 1..Len(s) |-> IF s[i] \in DOMAIN LowerOf THEN LowerOf[s[i]] ELSE s[i]]

\* re.sub(r"\s*P\s*", "P", s) for a single character P, on a string whose
\* whitespace is single spaces: every space next to a P goes.
ParenSub(s, p) ==
    FilterBy(s, [i \in 1..Len(s) |->
        ~(s[i] \in Whitespace
          /\ ((i > 1 /\ s[i - 1] = p) \/ (i < Len(s) /\ s[i + 1] = p)))])

\* ------------------------------------------------------------ canonicalizer

\* Column labels are str in the model, so line 20 (None) and str(name) of
\* line 22 do nothing.
_norm_key_name(name) ==
    ParenSub(
        ParenSub(
            ToLower(Strip(JoinSpace(Split(
                [i \in 1..Len(name) |-> IF name[i] = "NBSP" THEN " " ELSE name[i]])))),
            "("),
        ")")

ItemNumber == <<"I","t","e","m"," ","n","u","m","b","e","r">>

DelayDays == <<"D","e","l","a","y"," ","(","d","a","y","s",")">>

Number == <<"N","u","m","b","e","r">>

ItemSynonyms ==
    { <<"i","t","e","m"," ","n","u","m","b","e","r">>, <<"i","t","e","m","n","u","m","b","e","r">>, <<"i","t","e","m"," ","n","o">>, <<"i","t","e","m","_","n","o">>, <<"i","t","e","m","n","r">>, <<"i","t","e","m">> }

DelaySynonyms ==
    { <<"d","e","l","a","y","(","d","a","y","s",")">>, <<"d","e","l","a","y"," ","(","d","a","y","s",")">>, <<"d","e","l","a","y","_","d","a","y","s">>, <<"d","e","l","a","y">>,
      <<"v","e","r","t","r","a","g","i","n","g","(","d","a","g","e","n",")">>, <<"v","e","r","t","r","a","g","i","n","g"," ","(","d","a","g","e","n",")">> }

\* RenameTo with the targets of the first and the third branch exchanged.
RenameToSwapped(col, k) ==
    IF k \in ItemSynonyms THEN Number
    ELSE IF k \in DelaySynonyms THEN DelayDays
    ELSE IF k = <<"n","u","m","b","e","r">> THEN ItemNumber
    ELSE col

\* lines 33-38: rename_map[col] for the normalized spelling k of col, or col
\* itself when the loop adds no entry for it.
RenameTo(col, k) ==
    IF k \in ItemSynonyms THEN ItemNumber
    ELSE IF k \in DelaySynonyms THEN DelayDays
    ELSE IF k = <<"n","u","m","b","e","r">> THEN Number
    ELSE col

\* lines 32-38
Rename(col) == RenameTo(col, _norm_key_name(col))

_canon_columns(d) ==
    [d EXCEPT !.columns = [i \in 1..Len(d.columns) |-> Rename(d.columns[i])]]

\* The position of the (first) column called name.
ColIdx(d, name) ==
    CHOOSE i \in 1..Len(d.columns) :
        /\ d.columns[i] = name
        /\ \A j \in 1..(i - 1) : d.columns[j] # name

_ensure_item_number(d) ==
    IF ItemNumber \notin Range(d.columns) /\ Number \in Range(d.columns)
    THEN [columns |-> Append(d.columns, ItemNumber),
          rows |-> [r \in 1..Len(d.rows) |->
                        Append(d.rows[r], d.rows[r][ColIdx(d, Number)])]]
    ELSE d

\* ------------------------------------------------------------ handler at rest

NoFile == [columns |-> << >>, rows |-> << >>, kind |-> "nofile"]

NoFrame == [columns |-> << >>, rows |-> << >>]

NoIndexed == [name |-> << >>, index |-> << >>, columns |-> << >>, rows |-> << >>]

NoExc == [type |-> "none", key |-> << >>, old_columns |-> << >>, new_columns |-> << >>]

HandlerAtRest ==
    /\ file_old = NoFile
    /\ file_new = NoFile
    /\ pc = "rest"
    /\ df_old_idx = NoIndexed
    /\ df_new_idx = NoIndexed
    /\ df_added_delay = NoFrame
    /\ shown = << >>
    /\ excel_bytes = << >>
    /\ exc = NoExc

\* ------------------------------------------------------------ SpecCanon

\* The sequences over S of length 0..n.
SeqsUpTo(S, n) == UNION {[1..k -> S] : k \in 0..n}

RawHeaders ==
    { <<"I","t","e","m"," ","n","u","m","b","e","r">>, <<"I","t","e","m"," "," ","N","u","m","b","e","r">>, <<"i","t","e","m","_","n","o">>, <<"I","T","E","M">>,
      <<"D","e","l","a","y"," ","(","d","a","y","s",")">>, <<"D","e","l","a","y"," ","("," ","D","a","y","s"," ",")">>, <<"V","e","r","t","r","a","g","i","n","g","NBSP","(","d","a","g","e","n",")">>,
      <<"N","u","m","b","e","r">>, <<" ","n","u","m","b","e","r">>, <<"Q","t","y">>, <<"I","t","e","m"," ","n","r">> }

\* A table with the given headers and one row whose cells tell the columns apart.
OneRowTable(hs) ==
    [columns |-> hs, rows |-> << [i \in 1..Len(hs) |-> IntCell(i)] >>]

InitCanon ==
    /\ df \in {OneRowTable(hs) : hs \in SeqsUpTo(RawHeaders, MaxCols)}
    /\ res = << >>
    /\ HandlerAtRest

\* _canon_columns(df)
Canon ==
    /\ Len(res) = 0
    /\ res' = <<_canon_columns(df)>>
    /\ UNCHANGED <<df, handlerVars>>

\* _canon_columns applied to its own result
ReCanon ==
    /\ Len(res) = 1
    /\ res' = Append(res, _canon_columns(res[1]))
    /\ UNCHANGED <<df, handlerVars>>

Count(s, x) == Cardinality({i \in 1..Len(s) : s[i] = x})

\* _ensure_item_number(_canon_columns(df)), as _prepare composes them.  With
\* several `Number` columns df["Number"] is a frame, not a column; that case
\* is left out.
EnsureItemNumber ==
    /\ Len(res) = 2
    /\ Count(res[1].columns, Number) <= 1
    /\ res' = Append(res, _ensure_item_number(res[1]))
    /\ UNCHANGED <<df, handlerVars>>

NextCanon == Canon \/ ReCanon \/ EnsureItemNumber

SpecCanon == InitCanon /\ [][NextCanon]_vars

Distinct(s) == \A i, j \in 1..Len(s) : i # j => s[i] # s[j]

CanonNames == {ItemNumber, DelayDays, Number}

\* C9: column canonicalization is idempotent: _canon_columns applied to the
\* result of _canon_columns yields the same headers (and the same table); each
\* canonical name maps to itself and an unmapped header passes through unchanged.
C9_CanonIdempotent ==
    Len(res) >= 2 =>
        /\ res[2] = res[1]
        /\ \A i \in 1..Len(df.columns) :
              \/ res[1].columns[i] \in CanonNames
              \/ res[1].columns[i] = df.columns[i]
        /\ \A c \in CanonNames : Rename(c) = c

\* C9's case: a table with a respelled synonym and an unmapped header has been
\* canonicalized twice.
C9_Witness ==
    /\ Len(res) >= 2
    /\ df.columns = << <<"I","t","e","m"," "," ","N","u","m","b","e","r">>, <<"Q","t","y">> >>
    /\ res[2].columns = << ItemNumber, <<"Q","t","y">> >>

\* C10: canonicalization preserves header uniqueness: pairwise distinct input
\* headers stay pairwise distinct after _canon_columns and _ensure_item_number.
C10_CanonKeepsHeadersDistinct ==
    (Len(res) >= 3 /\ Distinct(df.columns)) => Distinct(res[3].columns)

\* ------------------------------------------------------------ key normalizer

\* _clean_key_value without lines 52-53
CleanKeyNoIntegerFloat(v) ==
    IF v.t \in {"none", "nan"} THEN << >>
    ELSE IF v.t = "float" THEN Strip(FloatToStr(v.n))
    ELSE IF v.t = "int" THEN Strip(IntToStr(v.n))
    ELSE Strip(v.s)

_clean_key_value(v) ==
    IF v.t \in {"none", "nan"} THEN << >>
    ELSE IF v.t = "float" /\ v.n % 10 = 0 THEN IntToStr(v.n \div 10)
    ELSE IF v.t = "float" THEN Strip(FloatToStr(v.n))
    ELSE IF v.t = "int" THEN Strip(IntToStr(v.n))
    ELSE Strip(v.s)

\* df[key] = df[key].map(_clean_key_value), key being column k
MapCleanKeyAt(d, k) ==
    [d EXCEPT !.rows =
        [r \in 1..Len(d.rows) |->
            [d.rows[r] EXCEPT ![k] = StrCell(_clean_key_value(d.rows[r][k]))]]]

\* df[key] = df[key].map(_clean_key_value)
MapCleanKey(d, key) == MapCleanKeyAt(d, ColIdx(d, key))

\* df.drop_duplicates(subset=[key], keep="first"), key being column k
KeepFirst(d, k) ==
    [d EXCEPT !.rows =
        FilterBy(d.rows, [i \in 1..Len(d.rows) |->
            \A j \in 1..(i - 1) : d.rows[j][k] # d.rows[i][k]])]

\* df.drop_duplicates(subset=[key], keep="last"), key being column k
KeepLast(d, k) ==
    [d EXCEPT !.rows =
        FilterBy(d.rows, [i \in 1..Len(d.rows) |->
            \A j \in (i + 1)..Len(d.rows) : d.rows[j][k] # d.rows[i][k]])]

\* df.drop_duplicates(subset=[key], keep="last")
drop_duplicates(d, key) == KeepLast(d, ColIdx(d, key))

\* ------------------------------------------------------------ SpecDedup

Qty == <<"Q","t","y">>

DedupKeys ==
    { FloatCell(10), StrCell(<<"1">>), StrCell(<<" ","1"," ">>), IntCell(2), NaN }

DedupRows == {<<k, q>> : k \in DedupKeys, q \in {IntCell(7), IntCell(8)}}

InitDedup ==
    /\ df \in {[columns |-> <<ItemNumber, Qty>>, rows |-> rs] :
                  rs \in SeqsUpTo(DedupRows, MaxDedupRows)}
    /\ res = << >>
    /\ HandlerAtRest

\* _prepare, lines 69-73, on one table
CleanAndDedup ==
    /\ Len(res) = 0
    /\ res' = <<drop_duplicates(MapCleanKey(df, ItemNumber), ItemNumber)>>
    /\ UNCHANGED <<df, handlerVars>>

\* the deduplication applied to its own result
ReDedup ==
    /\ Len(res) = 1
    /\ res' = Append(res, drop_duplicates(res[1], ItemNumber))
    /\ UNCHANGED <<df, handlerVars>>

NextDedup == CleanAndDedup \/ ReDedup

SpecDedup == InitDedup /\ [][NextDedup]_vars

\* The rows of the raw table df with the key normalized, in original order.
NormalizedRows == MapCleanKey(df, ItemNumber).rows

\* C4: after the deduplication each normalized key of the table occurs exactly
\* once, the row kept for a key is the last row with that key in original row
\* order, and deduplicating the result again changes nothing.
C4_DedupKeepsLastOnceIdempotent ==
    Len(res) >= 1 =>
        LET out == res[1].rows
            inp == NormalizedRows
        IN  /\ \A i \in 1..Len(inp) :
                  Cardinality({o \in 1..Len(out) : out[o][1] = inp[i][1]}) = 1
            /\ \A o \in 1..Len(out) :
                  \E i \in 1..Len(inp) :
                      /\ inp[i] = out[o]
                      /\ \A j \in (i + 1)..Len(inp) : inp[j][1] # out[o][1]
            /\ Len(res) >= 2 => res[2] = res[1]

\* C4's case: the key 1 occurs in the first and the third row (as 1.0 and as
\* " 1 "), not adjacent, with different values; the third row is the one kept.
C4_Witness ==
    /\ Len(res) >= 2
    /\ df.rows = << <<FloatCell(10), IntCell(7)>>, <<IntCell(2), IntCell(7)>>,
                    <<StrCell(<<" ","1"," ">>), IntCell(8)>> >>
    /\ res[1].rows = << <<StrCell(<<"2">>), IntCell(7)>>, <<StrCell(<<"1">>), IntCell(8)>> >>

\* ------------------------------------------------------------ Excel-safe headers

_excel_bad_chars == {"[", "]", ":", "*", "?", "\\", "/"}

\* line 111: _excel_bad_chars.sub("_", name)
SubBadChars(name) ==
    [k \in 1..Len(name) |-> IF name[k] \in _excel_bad_chars THEN "_" ELSE name[k]]

\* lines 109-110
ColumnIfEmpty(name, i) == IF name = << >> THEN <<"C","o","l","u","m","n">> \o IntToStr(i) ELSE name

\* lines 107-111: the name of column c at 1-based position i, before it is
\* made unique.
BaseName(c, i) == SubBadChars(ColumnIfEmpty(Strip(c), i))

\* lines 112-116 with `if name in seen` in place of `while name in seen`.
UniqueNameOnce(base, seen) ==
    IF base \in seen THEN base \o <<"_">> \o IntToStr(2) ELSE base

RECURSIVE Suffixed(_, _, _, _)
\* The while loop of lines 114-116 at its test, with the counter n and the
\* current name.
Suffixed(base, n, name, seen) ==
    IF name \in seen
    THEN Suffixed(base, n + 1, base \o <<"_">> \o IntToStr(n + 1), seen)
    ELSE name

\* lines 112-116
UniqueName(base, seen) == Suffixed(base, 1, base, seen)

\* lines 117-118: one pass of the loop for column c at position i
AppendUnique(cols_out, c, i) ==
    Append(cols_out, UniqueName(BaseName(c, i), Range(cols_out)))

_excel_safe_headers(d) ==
    LET cols_out[i \in 0..Len(d.columns)] ==
            IF i = 0 THEN << >>
            ELSE AppendUnique(cols_out[i - 1], d.columns[i], i)
    IN  [d EXCEPT !.columns = cols_out[Len(d.columns)]]

\* ------------------------------------------------------------ SpecHeaders

SheetHeaders ==
    { << >>, <<" ">>, <<"A">>, <<" ","A">>, <<"A","_","2">>, <<"A","_","2","_","2">>, <<"C","o","l","u","m","n","2">>, <<"C","o","l","u","m","n","2","_","2">>,
      <<"A","/">>, <<"A","_">>, <<"[",":","*","?","\\","/","]">> }

InitHeaders ==
    /\ df \in {[columns |-> hs, rows |-> << >>] :
                  hs \in SeqsUpTo(SheetHeaders, MaxHeaders)}
    /\ res = << >>
    /\ HandlerAtRest

\* _excel_safe_headers(df)
ExcelSafeHeaders ==
    /\ Len(res) = 0
    /\ res' = <<_excel_safe_headers(df)>>
    /\ UNCHANGED <<df, handlerVars>>

NextHeaders == ExcelSafeHeaders

SpecHeaders == InitHeaders /\ [][NextHeaders]_vars

\* C5: for every sequence of input headers the headers _excel_safe_headers
\* produces (one per input header) are non-empty, pairwise distinct within the
\* sheet and free of the characters [ ] : * ? \ /.
C5_SafeHeaders ==
    Len(res) = 1 =>
        LET out == res[1].columns IN
        /\ Len(out) = Len(df.columns)
        /\ \A i \in 1..Len(out) :
              /\ out[i] # << >>
              /\ \A k \in 1..Len(out[i]) :
                    out[i][k] \notin {"[", "]", ":", "*", "?", "\\", "/"}
        /\ \A i, j \in 1..Len(out) : i # j => out[i] # out[j]

\* C5's case: the headers A, A, A_2, where the suffixed duplicate collides
\* with a later literal header.
C5_Witness ==
    /\ Len(res) = 1
    /\ df.columns = << <<"A">>, <<"A">>, <<"A","_","2">> >>
    /\ res[1].columns = << <<"A">>, <<"A","_","2">>, <<"A","_","2","_","2">> >>

\* A second case of C5: a literal Column2 followed by a blank second header.
C5_WitnessColumn2 ==
    /\ Len(res) = 1
    /\ df.columns = << <<"C","o","l","u","m","n","2">>, <<" ">> >>
    /\ res[1].columns = << <<"C","o","l","u","m","n","2">>, <<"C","o","l","u","m","n","2","_","2">> >>

\* ------------------------------------------------------------ ordering of str

\* The characters of the model in code point order.
CodePoints ==
    <<"TAB", " ", "(", ")", "*", ".", "/">> \o Digits \o <<":", "?">> \o Upper
    \o <<"[", "\\", "]", "_">> \o Lower \o <<"NBSP">>

\* The rank of each character in code point order.
OrdOf ==
    [c \in {CodePoints[k] : k \in 1..Len(CodePoints)} |->
        CHOOSE k \in 1..Len(CodePoints) : CodePoints[k] = c]

Ord(c) == OrdOf[c]

\* a < b for two str that differ at the positions diff of their common prefix
StrLessAt(a, b, diff) ==
    IF diff = {} THEN Len(a) < Len(b)
    ELSE Ord(a[Min(diff)]) < Ord(b[Min(diff)])

\* a < b for two str
StrLess(a, b) ==
    StrLessAt(a, b, {i \in 1..(IF Len(a) < Len(b) THEN Len(a) ELSE Len(b)) : a[i] # b[i]})

RECURSIVE sorted(_)
\* m, the least of S, followed by the rest of S sorted
LeastFirst(S, m) == <<m>> \o sorted(S \ {m})

\* sorted(S) for a set of str
sorted(S) ==
    IF S = {} THEN << >>
    ELSE LeastFirst(S, CHOOSE x \in S : \A y \in S : x = y \/ StrLess(x, y))

\* ------------------------------------------------------------ preparer

\* lines 59-60, on one table
Canonicalized(d) == _ensure_item_number(_canon_columns(d))

\* line 62, on the canonicalized tables
KeyMissing(o, n, key) ==
    key \notin Range(o.columns) \/ key \notin Range(n.columns)

\* s without its elements equal to x
Without(s, x) == FilterBy(s, [i \in 1..Len(s) |-> s[i] # x])

\* lines 76-77
KeyFirst(common_cols, key) ==
    IF key \in Range(common_cols) THEN <<key>> \o Without(common_cols, key)
    ELSE common_cols

\* lines 75-77
CommonCols(o, n, key) ==
    KeyFirst(sorted(Range(n.columns) \cap Range(o.columns)), key)

\* df[[key] + rest].set_index(key), key being column k and rest the columns at
\* the positions at
IndexedBy(d, key, k, rest, at) ==
    [name    |-> key,
     index   |-> [r \in 1..Len(d.rows) |-> d.rows[r][k].s],
     columns |-> rest,
     rows    |-> [r \in 1..Len(d.rows) |-> [c \in 1..Len(rest) |-> d.rows[r][at[c]]]]]

\* The positions in d of the columns named in cols.
Positions(d, cols) == [c \in 1..Len(cols) |-> ColIdx(d, cols[c])]

\* lines 79-80: df[common_cols].set_index(key)
SelectAndIndex(d, common_cols, key) ==
    IndexedBy(d, key, ColIdx(d, key), Without(common_cols, key),
              Positions(d, Without(common_cols, key)))

\* lines 75-81, on the deduplicated tables o and n
Align(o, n, common_cols, key) ==
    [old |-> SelectAndIndex(o, common_cols, key),
     new |-> SelectAndIndex(n, common_cols, key),
     common_cols |-> common_cols]

\* lines 75-81, on the deduplicated tables o and n
AlignCommon(o, n, key) == Align(o, n, CommonCols(o, n, key), key)

\* lines 69-81, on the canonicalized tables o and n
CleanDedupAlign(o, n, key) ==
    AlignCommon(drop_duplicates(MapCleanKey(o, key), key),
                drop_duplicates(MapCleanKey(n, key), key),
                key)

\* A result returned, not raised.
Returned(p) == [raised |-> FALSE, exc |-> NoExc, old |-> p.old, new |-> p.new]

\* CheckKey with a message that leaves out the two column lists
CheckKeyNoColumns(o, n, key) ==
    IF KeyMissing(o, n, key)
    THEN [raised |-> TRUE,
          exc |-> [type |-> "KeyError", key |-> key,
                   old_columns |-> << >>, new_columns |-> << >>],
          old |-> NoIndexed, new |-> NoIndexed]
    ELSE Returned(CleanDedupAlign(o, n, key))

\* lines 62-81, on the canonicalized tables o and n: the KeyError with the key
\* and both column lists, or the two indexed tables.
CheckKey(o, n, key) ==
    IF KeyMissing(o, n, key)
    THEN [raised |-> TRUE,
          exc |-> [type |-> "KeyError", key |-> key,
                   old_columns |-> o.columns, new_columns |-> n.columns],
          old |-> NoIndexed, new |-> NoIndexed]
    ELSE Returned(CleanDedupAlign(o, n, key))

_prepare(df_old, df_new, key) ==
    CheckKey(Canonicalized(df_old), Canonicalized(df_new), key)

\* df.reset_index()
reset_index(d) ==
    [columns |-> <<d.name>> \o d.columns,
     rows    |-> [r \in 1..Len(d.rows) |-> <<StrCell(d.index[r])>> \o d.rows[r]]]

\* ------------------------------------------------------------ delta filter

RECURSIVE StrToNat(_)
\* int(s) of a non-empty str of digits
StrToNat(s) ==
    LET d == (CHOOSE k \in 1..10 : Digits[k] = s[Len(s)]) - 1 IN
    IF Len(s) = 1 THEN d ELSE 10 * StrToNat(SubSeq(s, 1, Len(s) - 1)) + d

IsDigits(s) == Len(s) >= 1 /\ \A i \in 1..Len(s) : s[i] \in Range(Digits)

\* pd.to_numeric(..., errors="coerce").fillna(0) of one cell, in tenths.
\* Of str, the model parses digits and digits "." digit; the rest is coerced
\* to NaN, hence 0.
ToNumericFillna(c) ==
    IF c.t = "int" THEN 10 * c.n
    ELSE IF c.t = "float" THEN c.n
    ELSE IF c.t = "str" /\ IsDigits(c.s) THEN 10 * StrToNat(c.s)
    ELSE IF /\ c.t = "str"
            /\ Len(c.s) >= 3
            /\ c.s[Len(c.s) - 1] = "."
            /\ IsDigits(SubSeq(c.s, 1, Len(c.s) - 2))
            /\ IsDigits(<<c.s[Len(c.s)]>>)
         THEN 10 * StrToNat(SubSeq(c.s, 1, Len(c.s) - 2)) + StrToNat(<<c.s[Len(c.s)]>>)
    ELSE 0

\* line 92: the row is kept
DelayFilter(tenths) == tenths > 0

\* line 85 without the subtraction of the old keys
AddedKeysAllNew(df_old_i, df_new_i) == sorted(Range(df_new_i.index))

\* line 85
AddedKeys(df_old_i, df_new_i) ==
    sorted(Range(df_new_i.index) \ Range(df_old_i.index))

\* df_new_idx.loc[added_keys]
Loc(d, added_keys) ==
    [name    |-> d.name,
     index   |-> added_keys,
     columns |-> d.columns,
     rows    |-> [a \in 1..Len(added_keys) |->
                    d.rows[CHOOSE r \in 1..Len(d.index) : d.index[r] = added_keys[a]]]]

\* lines 91-92, Delay (days) being column dc and num its coerced values
CoerceAndFilter(d, dc, num) ==
    [name    |-> d.name,
     index   |-> FilterBy(d.index, [r \in 1..Len(num) |-> DelayFilter(num[r])]),
     columns |-> d.columns,
     rows    |-> FilterBy([r \in 1..Len(d.rows) |->
                              [d.rows[r] EXCEPT ![dc] = FloatCell(num[r])]],
                          [r \in 1..Len(num) |-> DelayFilter(num[r])])]

\* lines 91-92, Delay (days) being column dc
FilterDelayAt(d, dc) ==
    CoerceAndFilter(d, dc, [r \in 1..Len(d.rows) |-> ToNumericFillna(d.rows[r][dc])])

\* lines 90-93
FilterDelay(df_added) ==
    IF DelayDays \in Range(df_added.columns)
    THEN reset_index(FilterDelayAt(df_added, ColIdx(df_added, DelayDays)))
    ELSE reset_index(df_added)

\* lines 86-93
RowsFor(df_new_i, added_keys) ==
    IF added_keys = << >>
    THEN [columns |-> <<ItemNumber>> \o Without(df_new_i.columns, ItemNumber),
          rows |-> << >>]
    ELSE FilterDelay(Loc(df_new_i, added_keys))

_new_rows_with_delay(df_old_i, df_new_i) ==
    RowsFor(df_new_i, AddedKeys(df_old_i, df_new_i))

\* ------------------------------------------------------------ export

\* base[:80]
TableNameMax == 80

IsAlpha(c) == c \in Range(Upper) \cup Range(Lower)

\* The first 8 characters of str(uuid4()): two of the values it can take.
Uuid8 == { <<"0","a","1","b","2","c","3","d">>, <<"f","0","0","d","c","a","f","e">> }

_safe_table_name(sheet_title, uuid8) ==
    LET subbed == [i \in 1..Len(sheet_title) |->
                      IF \/ IsAlpha(sheet_title[i])
                         \/ sheet_title[i] \in Range(Digits)
                         \/ sheet_title[i] = "_"
                      THEN sheet_title[i] ELSE "_"]
        base == IF subbed = << >> \/ ~IsAlpha(subbed[1]) THEN <<"T","_">> \o subbed ELSE subbed
        cut == SubSeq(base, 1, IF Len(base) < TableNameMax THEN Len(base) ELSE TableNameMax)
    IN  cut \o <<"_">> \o uuid8

\* df.to_excel(xw, sheet_name=title, index=False) read back by load_workbook:
\* the header row and one row per data row, and no table yet.
Worksheet(title, d) ==
    [title  |-> title,
     cells  |-> <<d.columns>> \o d.rows,
     tables |-> << >>]

\* ws.max_row of a sheet with a header row
max_row(ws) == Len(ws.cells)

\* ws.max_column
max_column(ws) == Len(ws.cells[1])

\* get_column_letter(n), n <= 26
get_column_letter(n) == <<Upper[n]>>

\* line 154 with `>= 1` in place of `>= 2`
TableWantedHeaderOnly(ws) == max_row(ws) >= 1 /\ max_column(ws) >= 1

\* line 154
TableWanted(ws) == max_row(ws) >= 2 /\ max_column(ws) >= 1

add_table(ws, uuid8) ==
    IF TableWanted(ws)
    THEN [ws EXCEPT !.tables =
            Append(ws.tables,
                   [displayName |-> _safe_table_name(ws.title, uuid8),
                    ref |-> <<"A","1",":">> \o get_column_letter(max_column(ws))
                            \o IntToStr(max_row(ws)),
                    style |-> <<"T","a","b","l","e","S","t","y","l","e","M","e","d","i","u","m","9">>,
                    showRowStripes |-> TRUE])]
    ELSE ws

SheetTitles == << <<"O","u","d","e","_","i","n","v","o","e","r">>, <<"N","i","e","u","w","e","_","i","n","v","o","e","r">>, <<"N","i","e","u","w","e","_","r","i","j","e","n","_","D","e","l","a","y","_","g","t","_","0">> >>

\* The workbook to_excel_bytes saves, as its three sheets; uuids[s] is the
\* uuid4 drawn for sheet s.
to_excel_bytes(df_old_i, df_new_i, df_added, uuids) ==
    LET outs == << _excel_safe_headers(reset_index(df_old_i)),
                   _excel_safe_headers(reset_index(df_new_i)),
                   _excel_safe_headers(df_added) >>
    IN  [s \in 1..3 |-> add_table(Worksheet(SheetTitles[s], outs[s]), uuids[s])]

\* ------------------------------------------------------------ Vergelijk handler

Element(el, data) == [el |-> el, data |-> data]

\* pd.read_excel(file)
read_excel(file) == [columns |-> file.columns, rows |-> file.rows]

Xlsx(hs, rs) == [columns |-> hs, rows |-> rs, kind |-> "xlsx"]

\* An upload pd.read_excel cannot parse.
Corrupt == [columns |-> << >>, rows |-> << >>, kind |-> "corrupt"]

Exception(type) ==
    [type |-> type, key |-> << >>, old_columns |-> << >>, new_columns |-> << >>]

\* lines 180-188: the button is pressed; without both files the warning is
\* shown and the script stops; else both files are read.
Click ==
    /\ pc = "rest"
    /\ IF file_old = NoFile \/ file_new = NoFile
       THEN /\ shown' = Append(shown, Element("warning", << >>))
            /\ pc' = "stopped"
            /\ exc' = exc
       ELSE IF file_old = Corrupt \/ file_new = Corrupt
       THEN /\ exc' = Exception("ParseError")
            /\ pc' = "except"
            /\ shown' = shown
       ELSE /\ pc' = "prepare"
            /\ UNCHANGED <<shown, exc>>
    /\ UNCHANGED <<helperVars, file_old, file_new, df_old_idx, df_new_idx,
                   df_added_delay, excel_bytes>>

\* line 190: _prepare(df_old_raw, df_new_raw, key="Item number")
Prepare ==
    /\ pc = "prepare"
    /\ \E r \in {_prepare(read_excel(file_old), read_excel(file_new), ItemNumber)} :
          IF r.raised
          THEN /\ exc' = r.exc
               /\ pc' = "except"
               /\ UNCHANGED <<df_old_idx, df_new_idx>>
          ELSE /\ df_old_idx' = r.old
               /\ df_new_idx' = r.new
               /\ pc' = "filter"
               /\ exc' = exc
    /\ UNCHANGED <<helperVars, file_old, file_new, df_added_delay, shown, excel_bytes>>

\* line 191
NewRowsWithDelay ==
    /\ pc = "filter"
    /\ df_added_delay' = _new_rows_with_delay(df_old_idx, df_new_idx)
    /\ pc' = "tabs"
    /\ UNCHANGED <<helperVars, file_old, file_new, df_old_idx, df_new_idx, shown,
                   excel_bytes, exc>>

\* lines 193-200: the three tabs with the tables and the row count
ShowTabs ==
    /\ pc = "tabs"
    /\ shown' = shown \o
          << Element("dataframe", reset_index(df_old_idx)),
             Element("dataframe", reset_index(df_new_idx)),
             Element("write", Len(df_added_delay.rows)),
             Element("dataframe", df_added_delay) >>
    /\ pc' = "export"
    /\ UNCHANGED <<helperVars, file_old, file_new, df_old_idx, df_new_idx,
                   df_added_delay, excel_bytes, exc>>

\* line 202: to_excel_bytes returns the workbook
ToExcelBytes ==
    /\ pc = "export"
    /\ \E uuids \in [1..3 -> Uuid8] :
          excel_bytes' = to_excel_bytes(df_old_idx, df_new_idx, df_added_delay, uuids)
    /\ pc' = "download"
    /\ UNCHANGED <<helperVars, file_old, file_new, df_old_idx, df_new_idx,
                   df_added_delay, shown, exc>>

\* line 202: to_excel_bytes raises (the writer, the reload or the save fails)
ToExcelBytesRaises ==
    /\ pc = "export"
    /\ exc' = Exception("ExportError")
    /\ pc' = "except"
    /\ UNCHANGED <<helperVars, file_old, file_new, df_old_idx, df_new_idx,
                   df_added_delay, shown, excel_bytes>>

\* lines 203-209
DownloadButton ==
    /\ pc = "download"
    /\ shown' = Append(shown, Element("download_button", excel_bytes))
    /\ pc' = "done"
    /\ UNCHANGED <<helperVars, file_old, file_new, df_old_idx, df_new_idx,
                   df_added_delay, excel_bytes, exc>>

\* lines 211-214: st.error with the exception's text, and the traceback
Except ==
    /\ pc = "except"
    /\ shown' = shown \o << Element("error", exc), Element("traceback", exc) >>
    /\ pc' = "done"
    /\ UNCHANGED <<helperVars, file_old, file_new, df_old_idx, df_new_idx,
                   df_added_delay, excel_bytes, exc>>

\* ------------------------------------------------------------ inputs

CompareKeys == { FloatCell(10010), StrCell(<<"1","0","0","1">>), IntCell(2) }

NewDelays == { IntCell(5), IntCell(0), StrCell(<<"x">>) }

OldDelays == { IntCell(0) }

\* Raw tables with headers hs, up to n rows, the cells of column c from cols[c].
Tables(hs, cols, n) ==
    {Xlsx(hs, rs) :
        rs \in SeqsUpTo({r \in [1..Len(hs) -> UNION Range(cols)] :
                            \A c \in 1..Len(hs) : r[c] \in cols[c]}, n)}

\* Old tables: of up to n rows with a key and a delay column; of at most one
\* row with `Number` only (the fallback), with the key only, and without any
\* key column.
OldTables(n) ==
    Tables(<< <<"i","t","e","m","_","n","o">>, <<"D","e","l","a","y">> >>, <<CompareKeys, OldDelays>>, n)
    \cup Tables(<< <<"N","u","m","b","e","r">> >>, <<CompareKeys>>, 1)
    \cup Tables(<< <<"I","t","e","m"," ","n","u","m","b","e","r">> >>, <<CompareKeys>>, 1)
    \cup Tables(<< <<"A","r","t","i","k","e","l">> >>, <<CompareKeys>>, 1)

\* New tables: of up to n rows with a key and a delay column or with the key
\* only; of at most one row without any key column.
NewTables(n) ==
    Tables(<< <<"I","t","e","m"," "," ","N","u","m","b","e","r">>, <<"d","e","l","a","y","_","d","a","y","s">> >>, <<CompareKeys, NewDelays>>, n)
    \cup Tables(<< <<"I","T","E","M">> >>, <<CompareKeys>>, n)
    \cup Tables(<< <<"C","o","d","e">> >>, <<CompareKeys>>, 1)

HandlerFresh ==
    /\ df = NoFrame
    /\ res = << >>
    /\ df_old_idx = NoIndexed
    /\ df_new_idx = NoIndexed
    /\ df_added_delay = NoFrame
    /\ shown = << >>
    /\ excel_bytes = << >>
    /\ exc = NoExc

\* ------------------------------------------------------------ SpecCompare

\* _prepare followed by _new_rows_with_delay on a pair of raw tables.
InitCompare ==
    /\ file_old \in OldTables(MaxRows)
    /\ file_new \in NewTables(MaxRows)
    /\ pc = "prepare"
    /\ HandlerFresh

NextCompare == Prepare \/ NewRowsWithDelay

SpecCompare == InitCompare /\ [][NextCompare]_vars

\* The raw key cells of an upload: the cells of its key column after
\* canonicalization and the `Item number` fallback.
KeyCells(d) == {d.rows[r][ColIdx(d, ItemNumber)] : r \in 1..Len(d.rows)}

RawKeys(file) == KeyCells(Canonicalized(read_excel(file)))

NormalizedKeys(file) == {_clean_key_value(c) : c \in RawKeys(file)}

\* The keys of the rows of the added-delay output.
OutputKeys == {df_added_delay.rows[r][1].s : r \in 1..Len(df_added_delay.rows)}

\* C1: for every pair of raw tables _prepare accepts, the key of every row
\* _new_rows_with_delay returns is a normalized key of the new table that is
\* not a normalized key of the old table.
C1_AddedKeysNewNotOld ==
    pc = "tabs" =>
        /\ df_added_delay.columns[1] = ItemNumber
        /\ OutputKeys \subseteq NormalizedKeys(file_new) \ NormalizedKeys(file_old)

\* C1's case: the new table holds the key 1001, which the old table holds as
\* 1001.0, and the key 2, which it does not; only the row of key 2 is returned.
C1_Witness ==
    /\ pc = "tabs"
    /\ RawKeys(file_old) = {FloatCell(10010)}
    /\ RawKeys(file_new) = {StrCell(<<"1","0","0","1">>), IntCell(2)}
    /\ OutputKeys = { <<"2">> }

\* The value of `Delay (days)` in row r of the added-delay output, in tenths.
OutputDelay(r) ==
    ToNumericFillna(df_added_delay.rows[r][ColIdx(df_added_delay, DelayDays)])

\* C2: every row of the added-delay output has a `Delay (days)` value strictly
\* greater than 0 whenever the output has that column, and the output lacks
\* the column only when it was absent from the new table given as input.
C2_DelayPositiveAbsentOnlyIfAbsentInNew ==
    pc = "tabs" =>
        /\ DelayDays \in Range(df_added_delay.columns) =>
              \A r \in 1..Len(df_added_delay.rows) : OutputDelay(r) > 0
        /\ DelayDays \notin Range(df_added_delay.columns) =>
              DelayDays \notin Range(_canon_columns(read_excel(file_new)).columns)

\* The input on which C2 fails: the old table has no delay column, the new
\* table has one row, new, with a delay of 0; the row is returned, without
\* the column.
C2_FailingInput ==
    /\ pc = "tabs"
    /\ file_old.columns = << <<"I","t","e","m"," ","n","u","m","b","e","r">> >>
    /\ file_old.rows = << <<FloatCell(10010)>> >>
    /\ file_new.rows = << <<IntCell(2), IntCell(0)>> >>
    /\ df_added_delay = [columns |-> <<ItemNumber>>, rows |-> << <<StrCell(<<"2">>)>> >>]

\* The first half of C2 alone.
C2_DelayPositive ==
    (pc = "tabs" /\ DelayDays \in Range(df_added_delay.columns)) =>
        \A r \in 1..Len(df_added_delay.rows) : OutputDelay(r) > 0

\* The second half of C2 as the code has it: the output lacks the column only
\* when the old or the new table lacks it.
C2_AbsentOnlyIfAbsentInOldOrNew ==
    (pc = "tabs" /\ DelayDays \notin Range(df_added_delay.columns)) =>
        \/ DelayDays \notin Range(_canon_columns(read_excel(file_new)).columns)
        \/ DelayDays \notin Range(_canon_columns(read_excel(file_old)).columns)

\* c is a float with an integer value and d the str of that integer.
FloatAndItsString(c, d) ==
    /\ c.t = "float"
    /\ c.n % 10 = 0
    /\ d.t = "str"
    /\ IsDigits(d.s)
    /\ (Len(d.s) = 1 \/ d.s[1] # "0")
    /\ StrToNat(d.s) = c.n \div 10

\* C3: the key normalization is applied to both tables before the keys are
\* compared: a float key with an integer value in one table and the string of
\* that integer in the other normalize to the same key, and the row of the new
\* table with that key is not reported as added.
C3_FloatAndStringKeyCollide ==
    pc = "tabs" =>
        \A co \in RawKeys(file_old), cn \in RawKeys(file_new) :
            (FloatAndItsString(co, cn) \/ FloatAndItsString(cn, co)) =>
                /\ _clean_key_value(co) = _clean_key_value(cn)
                /\ _clean_key_value(cn) \notin OutputKeys

\* C3's case (scenario C): 1001.0 in old and "1001" in new, with a delay of 5;
\* nothing is reported as added.
C3_Witness ==
    /\ pc = "tabs"
    /\ file_old.rows = << <<FloatCell(10010), IntCell(0)>> >>
    /\ file_new.rows = << <<StrCell(<<"1","0","0","1">>), IntCell(5)>> >>
    /\ DelayDays \in Range(df_added_delay.columns)
    /\ df_added_delay.rows = << >>

\* ------------------------------------------------------------ Spec

\* One Vergelijk request on the two uploads.
Init ==
    /\ file_old \in {NoFile, Corrupt} \cup OldTables(MaxUploadRows)
    /\ file_new \in {NoFile, Corrupt} \cup NewTables(MaxUploadRows)
    /\ pc = "rest"
    /\ HandlerFresh

Next ==
    \/ Click
    \/ Prepare
    \/ NewRowsWithDelay
    \/ ShowTabs
    \/ ToExcelBytes
    \/ ToExcelBytesRaises
    \/ DownloadButton
    \/ Except

Spec == Init /\ [][Next]_vars

\* The elements that present a result of the comparison.
ResultElements == {"dataframe", "write", "download_button"}

ResultShown == \E i \in 1..Len(shown) : shown[i].el \in ResultElements

\* Both uploads parse and the key column is missing from one of them after
\* canonicalization and the fallback.
KeyColumnMissing ==
    /\ file_old.kind = "xlsx"
    /\ file_new.kind = "xlsx"
    /\ \/ ItemNumber \notin Range(Canonicalized(read_excel(file_old)).columns)
       \/ ItemNumber \notin Range(Canonicalized(read_excel(file_new)).columns)

\* C6: if the key column is missing from the old or the new table, the
\* comparison fails with an error that names the key column and lists the
\* columns of both tables; the error is shown, no export is produced and no
\* result table is shown.
C6_MissingKeyIsReported ==
    KeyColumnMissing =>
        /\ Len(excel_bytes) = 0
        /\ ~ResultShown
        /\ pc \in {"rest", "prepare", "except", "done"}
        /\ pc = "done" =>
              \E i \in 1..Len(shown) :
                  /\ shown[i].el = "error"
                  /\ shown[i].data.type = "KeyError"
                  /\ shown[i].data.key = ItemNumber
                  /\ shown[i].data.old_columns =
                        Canonicalized(read_excel(file_old)).columns
                  /\ shown[i].data.new_columns =
                        Canonicalized(read_excel(file_new)).columns

\* C6's case (scenario E): the old table has the key, the new table has only
\* a column `Code`; the handler has ended with the error shown.
C6_Witness ==
    /\ pc = "done"
    /\ file_old.columns = << <<"i","t","e","m","_","n","o">>, <<"D","e","l","a","y">> >>
    /\ file_new.columns = << <<"C","o","d","e">> >>
    /\ Len(shown) = 2
    /\ shown[1].el = "error"
    /\ shown[1].data.type = "KeyError"
    /\ shown[1].data.new_columns = << <<"C","o","d","e">> >>
    /\ shown[1].data.old_columns = << ItemNumber, DelayDays >>

\* The tables written to the three sheets, in sheet order.
SheetFrames == <<reset_index(df_old_idx), reset_index(df_new_idx), df_added_delay>>

\* C7: in the exported workbook each of the three sheets has a table region
\* if and only if it has at least one data row, and the region spans A1 to
\* the last column and the last row.
C7_TableIffDataRow ==
    Len(excel_bytes) = 3 =>
        \A s \in 1..3 :
            /\ Len(excel_bytes[s].tables) = (IF Len(SheetFrames[s].rows) >= 1 THEN 1 ELSE 0)
            /\ \A t \in 1..Len(excel_bytes[s].tables) :
                  excel_bytes[s].tables[t].ref =
                      <<"A", "1", ":", Upper[Len(SheetFrames[s].columns)]>>
                      \o IntToStr(Len(SheetFrames[s].rows) + 1)

\* C7's case: the new sheet has one data row and a table over A1:B2, the
\* added-delay sheet has its header row only and no table.
C7_Witness ==
    /\ Len(excel_bytes) = 3
    /\ Len(excel_bytes[2].cells) = 2
    /\ Len(excel_bytes[2].tables) = 1
    /\ excel_bytes[2].tables[1].ref = <<"A","1",":","B","2">>
    /\ Len(excel_bytes[3].cells) = 1
    /\ excel_bytes[3].tables = << >>

\* C8: parse, canonicalize, prepare, filter and export all complete before
\* any result is shown, and when a step raises no result has been shown.
C8_NoResultBeforePipelineEnds ==
    ResultShown =>
        /\ Len(excel_bytes) = 3
        /\ exc.type = "none"

=============================================================================
